---- MODULE Spec2Model ----
(***************************************************************************)
(* Mission Control (src/server.js): the agent-to-agent monitoring          *)
(* pipeline.  Session files and the system event file are tailed           *)
(* (tailSessionFile, startEventTail), session records are classified       *)
(* (processSessionLine), events are pushed to the WebSocket clients and    *)
(* appended to agent-comms.json (broadcastA2AEvent, broadcastEvent), and a *)
(* new connection is served a backfill (wss.on('connection')).             *)
(*                                                                         *)
(* Seven specifications share the definitions of the operations:           *)
(*   SpecExtract  one call of processSessionLine on a bounded session      *)
(*                record, its publishes included                           *)
(*   SpecHub      publishes, manual log writes and connections             *)
(*   SpecTail     appends, truncations and tails of a session file and of  *)
(*                the system event file                                    *)
(*   SpecLive     appends of whole lines, tails and connections            *)
(*   SpecPoll     the first poll of the session index and the tails after  *)
(*                it                                                       *)
(*   SpecIndex    the polls of the agents' session indexes and the tails   *)
(*                they start                                               *)
(*   SpecFail     publishes and connections with failing reads and writes  *)
(***************************************************************************)
EXTENDS Naturals, Integers, Sequences, FiniteSets, TLC

VARIABLES
  xObj,        \* SpecExtract: the parsed session record handed to processSessionLine
  xAgent,      \* SpecExtract: the agentId argument of processSessionLine
  xOut,        \* SpecExtract: the events processSessionLine passed to broadcastA2AEvent, in call order
  xDone,       \* SpecExtract: TRUE once processSessionLine has run on xObj
  commsFile,   \* agent-comms.json (agentCommsFile): the array it holds, <<>> when missing
  eventsFile,  \* EVENTS_FILE: the text of the system event file
  clients,     \* wss.clients: per subscriber its readyState and the messages sent to it, in order
  written,     \* history: every entry ever written to agent-comms.json, in write order
  published,   \* history: every event ever passed to broadcastA2AEvent, in call order
  connAt,      \* history: per subscriber, Len(published) and Len(written) when it connected
  nOps,        \* history: the number of publishes and manual log writes of this run
  sessionFile, \* the text of the session file of one session of agent TailAgent
  pending,     \* per watched file, the rest of a line its writer has begun and not yet flushed
  sessionFileOffset, \* sessionFileOffsets[filePath] for the session file
  lastEventSize,     \* lastEventSize
  reads,       \* per watched file, the read streams created and not yet ended: <<[start, size]>>
  watchDirty,  \* the system event file changed since fs.watchFile last called the listener
  updatedAtChanged,  \* the session's updatedAt in sessions.json differs from lastSessionUpdates
  handed,      \* history: per watched file, the lines passed to JSON.parse, in order
  appended,    \* history: per watched file, the whole lines appended during this run, in order
  nLines,      \* history: the number of lines begun by the writers
  nTrunc,      \* history: the number of truncations
  nPartial,    \* history: the number of lines their writer flushed in two parts
  baselined,   \* lastSessionUpdates[agentId] is defined: the first poll of the agent's index is done
  baseLines,   \* history: the lines the session file held at that first poll
  idx,         \* per agent and session key, the updatedAt its sessions.json holds (see NotListed)
  lastSessionUpdates,  \* lastSessionUpdates: per agent, whether it is defined and the stored updatedAt per key
  sessionFileOffsets,  \* sessionFileOffsets for the session file of each agent and key (see NotStored)
  sessionFiles,        \* the text of the session file of each agent and key
  polls,       \* the fs.readFile calls of pollSessionStores not yet called back: <<[agent, tick]>>
  streams,     \* the read streams of these session files not yet ended: <<[agent, key, start, size]>>
  tails,       \* history: per agent and key, the number of calls of tailSessionFile
  nTicks,      \* history: the number of ticks of the poll timer
  nIdxWrites   \* history: the number of writes of the agents to their sessions

xvars == <<xObj, xAgent, xOut, xDone>>
hubvars == <<commsFile, clients, written, published, connAt, nOps>>
tailvars == <<sessionFile, pending, sessionFileOffset, lastEventSize, reads, watchDirty,
              updatedAtChanged,
              handed, appended, nLines, nTrunc, nPartial, baselined, baseLines>>
idxvars == <<idx, lastSessionUpdates, sessionFileOffsets, sessionFiles, polls, streams, tails,
             nTicks, nIdxWrites>>

vars == <<xObj, xAgent, xOut, xDone, commsFile, eventsFile, clients, written, published, connAt,
          nOps, sessionFile, pending, sessionFileOffset, lastEventSize, reads, watchDirty,
          updatedAtChanged,
          handed, appended, nLines, nTrunc, nPartial, baselined, baseLines,
          idx, lastSessionUpdates, sessionFileOffsets, sessionFiles, polls, streams, tails,
          nTicks, nIdxWrites>>

Files == {"session", "events"}

\* the tailers' state in the specifications that do not run them
TailIdle ==
  /\ sessionFile = "" /\ sessionFileOffset = 0 /\ lastEventSize = 0
  /\ pending = [f \in Files |-> ""]
  /\ reads = [f \in Files |-> <<>>]
  /\ handed = [f \in Files |-> <<>>]
  /\ appended = [f \in Files |-> <<>>]
  /\ watchDirty = FALSE /\ updatedAtChanged = FALSE
  /\ nLines = 0 /\ nTrunc = 0 /\ nPartial = 0
  /\ baselined = TRUE /\ baseLines = <<>>

\* CORE_AGENT_IDS (config.js:22-23), two of them, and the session keys of an agent's index
IdxAgents == <<"main", "ops">>
Keys == <<"k1", "k2">>
AgentSet == {IdxAgents[i] : i \in DOMAIN IdxAgents}
KeySet == {Keys[i] : i \in DOMAIN Keys}

\* the poller's state in the specifications that do not run it
IdxIdle ==
  /\ idx = [a \in AgentSet |-> [k \in KeySet |-> 0]]
  /\ lastSessionUpdates = [a \in AgentSet |-> [seen |-> FALSE, at |-> [k \in KeySet |-> 0]]]
  /\ sessionFileOffsets = [a \in AgentSet |-> [k \in KeySet |-> 0]]
  /\ sessionFiles = [a \in AgentSet |-> [k \in KeySet |-> ""]]
  /\ polls = <<>> /\ streams = <<>>
  /\ tails = [a \in AgentSet |-> [k \in KeySet |-> 0]]
  /\ nTicks = 0 /\ nIdxWrites = 0

Min(a, b) == IF a < b THEN a ELSE b
Max(a, b) == IF a > b THEN a ELSE b

(***************************************************************************)
(* JavaScript values.  A string is a TLA+ string; undefined and null are   *)
(* tagged so that they can sit in the same field as a string.              *)
(***************************************************************************)
Undefined == [t |-> "undefined", s |-> ""]
Null      == [t |-> "null", s |-> ""]
Str(x)    == [t |-> "string", s |-> x]

\* JavaScript truthiness of undefined, null and strings: only a non-empty string is truthy.
Truthy(v) == v.t = "string" /\ v.s # ""

\* a || b
Or(a, b) == IF Truthy(a) THEN a ELSE b

ExcerptMax == 200

SubstringNoCut(s, a, b) == SubSeq(s, a + 1, Len(s))

\* String.prototype.substring(a, b) for 0 <= a <= b: the characters at 0-based a .. b-1, clipped to the length.
Substring(s, a, b) == SubSeq(s, a + 1, Min(b, Len(s)))

\* (x || '').substring(0, 200) of server.js:1122 and :1128
Excerpt(v) == Str(Substring(Or(v, Str("")).s, 0, ExcerptMax))

(***************************************************************************)
(* processSessionLine (server.js:1101-1160).  The event object is given    *)
(* every field some branch sets; a field a branch does not set reads as    *)
(* undefined, as it does in JavaScript.                                    *)
(***************************************************************************)
NoArgs == [agentId |-> Undefined, label |-> Undefined, sessionKey |-> Undefined,
           task |-> Undefined, message |-> Undefined, model |-> Undefined]

NoDetails == [status |-> Undefined, error |-> Undefined, runId |-> Undefined,
              childSessionKey |-> Undefined]

EventBase(ts, agentId, action) ==
  [ts |-> ts, fromAgent |-> agentId, action |-> action, event |-> "",
   toAgent |-> Undefined, task |-> Undefined, model |-> Undefined, label |-> Undefined,
   message |-> Undefined, status |-> Undefined, error |-> Undefined,
   runId |-> Undefined, childSessionKey |-> Undefined]

SpawnCallEventLabelFirst(obj, agentId, args) ==
  [EventBase(obj.timestamp, agentId, "sessions_spawn") EXCEPT
     !.event = "agent.spawn",
     !.toAgent = Or(Or(args.label, args.agentId), Str("subagent")),
     !.task = Excerpt(args.task),
     !.model = Or(args.model, Null),
     !.label = Or(args.label, Null)]

\* server.js:1113-1124: the event of a sessions_spawn tool call
SpawnCallEvent(obj, agentId, args) ==
  [EventBase(obj.timestamp, agentId, "sessions_spawn") EXCEPT
     !.event = "agent.spawn",
     !.toAgent = Or(Or(args.agentId, args.label), Str("subagent")),
     !.task = Excerpt(args.task),
     !.model = Or(args.model, Null),
     !.label = Or(args.label, Null)]

SendCallEventNoFallback(obj, agentId, args) ==
  [EventBase(obj.timestamp, agentId, "sessions_send") EXCEPT
     !.event = "agent.send",
     !.toAgent = Or(args.sessionKey, Str("?")),
     !.message = Excerpt(args.message)]

\* server.js:1113-1117, 1125-1129: the event of a sessions_send tool call
SendCallEvent(obj, agentId, args) ==
  [EventBase(obj.timestamp, agentId, "sessions_send") EXCEPT
     !.event = "agent.send",
     !.toAgent = Or(Or(args.sessionKey, args.label), Str("?")),
     !.message = Excerpt(args.message)]

BlockEventsAnyTool(obj, agentId, block) ==
  IF block.type # "toolCall" THEN <<>>
  ELSE IF block.name = "sessions_spawn"
       THEN <<SpawnCallEvent(obj, agentId, block.arguments)>>
       ELSE <<SendCallEvent(obj, agentId, block.arguments)>>

\* server.js:1108-1132: the body of msg.content.forEach for one block; <<>> for an early return
BlockEvents(obj, agentId, block) ==
  IF block.type # "toolCall" THEN <<>>
  ELSE IF block.name # "sessions_spawn" /\ block.name # "sessions_send" THEN <<>>
  ELSE IF block.name = "sessions_spawn"
       THEN <<SpawnCallEvent(obj, agentId, block.arguments)>>
       ELSE <<SendCallEvent(obj, agentId, block.arguments)>>

ContentEventsFirstOnly(obj, agentId, content) ==
  LET calls == SelectSeq(content, LAMBDA b : BlockEvents(obj, agentId, b) # <<>>)
  IN  IF calls = <<>> THEN <<>> ELSE BlockEvents(obj, agentId, calls[1])

RECURSIVE ContentEvents(_, _, _)
\* server.js:1108: msg.content.forEach, the blocks in array order
ContentEvents(obj, agentId, content) ==
  IF content = <<>> THEN <<>>
  ELSE BlockEvents(obj, agentId, Head(content)) \o ContentEvents(obj, agentId, Tail(content))

ToolResultEventToolFirst(obj, agentId, msg) ==
  LET details == msg.details
      base == [EventBase(obj.timestamp, agentId, msg.toolName) EXCEPT
                 !.status = Or(details.status, Str("unknown"))]
  IN  IF msg.toolName = "sessions_spawn"
      THEN [base EXCEPT !.event = "agent.spawn_ok",
                        !.runId = Or(details.runId, Null),
                        !.childSessionKey = Or(details.childSessionKey, Null)]
      ELSE IF details.status = Str("error") \/ details.status = Str("forbidden")
      THEN [base EXCEPT !.event = "agent.error",
                        !.error = Or(details.error, Str("unknown error"))]
      ELSE [base EXCEPT !.event = "agent.send_ok",
                        !.runId = Or(details.runId, Null)]

ToolResultEventNoNull(obj, agentId, msg) ==
  LET details == msg.details
      base == [EventBase(obj.timestamp, agentId, msg.toolName) EXCEPT
                 !.status = Or(details.status, Str("unknown"))]
  IN  IF details.status = Str("error") \/ details.status = Str("forbidden")
      THEN [base EXCEPT !.event = "agent.error",
                        !.error = Or(details.error, Str("unknown error"))]
      ELSE IF msg.toolName = "sessions_spawn"
      THEN [base EXCEPT !.event = "agent.spawn_ok",
                        !.runId = details.runId,
                        !.childSessionKey = details.childSessionKey]
      ELSE [base EXCEPT !.event = "agent.send_ok",
                        !.runId = details.runId]

\* server.js:1138-1156: the event of a sessions_spawn / sessions_send tool result
ToolResultEvent(obj, agentId, msg) ==
  LET details == msg.details
      base == [EventBase(obj.timestamp, agentId, msg.toolName) EXCEPT
                 !.status = Or(details.status, Str("unknown"))]
  IN  IF details.status = Str("error") \/ details.status = Str("forbidden")
      THEN [base EXCEPT !.event = "agent.error",
                        !.error = Or(details.error, Str("unknown error"))]
      ELSE IF msg.toolName = "sessions_spawn"
      THEN [base EXCEPT !.event = "agent.spawn_ok",
                        !.runId = Or(details.runId, Null),
                        !.childSessionKey = Or(details.childSessionKey, Null)]
      ELSE [base EXCEPT !.event = "agent.send_ok",
                        !.runId = Or(details.runId, Null)]

\* server.js:1101-1160: the events processSessionLine hands to broadcastA2AEvent, in call order
processSessionLine(obj, agentId) ==
  IF obj.type # "message" THEN <<>>
  ELSE IF ~obj.hasMessage THEN <<>>
  ELSE LET msg == obj.message
       IN (IF msg.role = "assistant" /\ msg.isArray
           THEN ContentEvents(obj, agentId, msg.content) ELSE <<>>)
          \o
          (IF msg.role = "toolResult" /\
              (msg.toolName = "sessions_spawn" \/ msg.toolName = "sessions_send")
           THEN <<ToolResultEvent(obj, agentId, msg)>> ELSE <<>>)

(***************************************************************************)
(* The session records processSessionLine is applied to.                   *)
(***************************************************************************)
MaxText == 500

Ten == "abcdefghij"
Hundred == Ten \o Ten \o Ten \o Ten \o Ten \o Ten \o Ten \o Ten \o Ten \o Ten
\* a string of n <= 600 characters whose i-th character depends on i
Text(n) == SubSeq(Hundred \o Hundred \o Hundred \o Hundred \o Hundred \o Hundred, 1, n)

TextLens == {0, 1, ExcerptMax - 1, ExcerptMax, ExcerptMax + 1, MaxText}
Texts == {Undefined, Str("build report")} \cup {Str(Text(n)) : n \in TextLens}

Agents == {"main", "ops"}
Stamps == {1000, 2000}

SpawnBlocks ==
  {[type |-> "toolCall", name |-> "sessions_spawn",
    arguments |-> [NoArgs EXCEPT !.agentId = a, !.label = l, !.task = t]] :
      a \in {Undefined, Str(""), Str("ops")}, l \in {Undefined, Str("helper")}, t \in Texts}

SendBlocks ==
  {[type |-> "toolCall", name |-> "sessions_send",
    arguments |-> [NoArgs EXCEPT !.sessionKey = k, !.label = l, !.message = t]] :
      k \in {Undefined, Str(""), Str("agent:ops:main")}, l \in {Undefined, Str("helper")},
      t \in Texts}

OtherBlocks ==
  {[type |-> "text", name |-> "", arguments |-> NoArgs],
   [type |-> "text", name |-> "sessions_spawn", arguments |-> NoArgs],
   [type |-> "toolCall", name |-> "exec", arguments |-> NoArgs]}

\* the blocks of the records that hold several blocks
PairBlocks ==
  {b \in SpawnBlocks : b.arguments.agentId = Str("ops") /\ b.arguments.label = Undefined
                       /\ b.arguments.task = Str("build report")}
  \cup {b \in SendBlocks : b.arguments.sessionKey = Undefined /\ b.arguments.label = Str("helper")
                           /\ b.arguments.message = Str(Text(1))}
  \cup {b \in OtherBlocks : b.name = "exec"}

Contents ==
  {<<>>} \cup {<<b>> : b \in SpawnBlocks \cup SendBlocks \cup OtherBlocks}
         \cup {<<b, c>> : b \in PairBlocks, c \in PairBlocks}

DetailsSet ==
  {[status |-> st, error |-> er, runId |-> ru, childSessionKey |-> ch] :
     st \in {Undefined, Str("accepted"), Str("error"), Str("forbidden")},
     er \in {Undefined, Str("boom")},
     ru \in {Undefined, Str("run-1")},
     ch \in {Undefined, Str("agent:ops:sub-1")}}

NoMessage == [role |-> "", isArray |-> FALSE, content |-> <<>>, toolName |-> "", details |-> NoDetails]

AssistantRecords ==
  {[type |-> "message", timestamp |-> ts, hasMessage |-> TRUE,
    message |-> [NoMessage EXCEPT !.role = "assistant", !.isArray = TRUE, !.content = c]] :
      ts \in Stamps, c \in Contents}

ToolResultRecords ==
  {[type |-> "message", timestamp |-> ts, hasMessage |-> TRUE,
    message |-> [NoMessage EXCEPT !.role = "toolResult", !.toolName = tn, !.details = d]] :
      ts \in Stamps, tn \in {"sessions_spawn", "sessions_send", "exec"}, d \in DetailsSet}

OtherRecords ==
  {[type |-> ty, timestamp |-> ts, hasMessage |-> hm,
    message |-> [NoMessage EXCEPT !.role = ro, !.isArray = ar,
                                  !.content = IF ar THEN <<CHOOSE b \in PairBlocks : b.name = "sessions_spawn">> ELSE <<>>]] :
      ty \in {"message", "custom"}, ts \in Stamps, hm \in BOOLEAN,
      ro \in {"user", "assistant"}, ar \in BOOLEAN}

Records == AssistantRecords \cup ToolResultRecords \cup OtherRecords

(***************************************************************************)
(* Claims about processSessionLine, checked under SpecExtract.             *)
(***************************************************************************)
IsA2ACall(b) ==
  b.type = "toolCall" /\ (b.name = "sessions_spawn" \/ b.name = "sessions_send")

\* the spawn / send tool-call blocks of an assistant message record, in content order
CallsOf(obj) ==
  IF obj.type = "message" /\ obj.hasMessage /\ obj.message.role = "assistant" /\ obj.message.isArray
  THEN SelectSeq(obj.message.content, IsA2ACall) ELSE <<>>

IsA2AToolResult(obj) ==
  /\ obj.type = "message" /\ obj.hasMessage /\ obj.message.role = "toolResult"
  /\ obj.message.toolName \in {"sessions_spawn", "sessions_send"}

\* the text of an argument: the string itself, the empty string when the argument is absent
TextOf(v) == IF v.t = "string" THEN v.s ELSE ""

\* C7: a spawn or send tool result whose status is "error" or "forbidden" yields exactly
\* one event, of kind agent.error, carrying the error text (the literal "unknown error"
\* when the result holds none), whichever tool produced it; never spawn_ok or send_ok.
C7_ErrorPrecedence ==
  (xDone /\ IsA2AToolResult(xObj)
     /\ xObj.message.details.status \in {Str("error"), Str("forbidden")})
  => /\ Len(xOut) = 1
     /\ xOut[1].event = "agent.error"
     /\ xOut[1].action = xObj.message.toolName
     /\ xOut[1].error = IF Truthy(xObj.message.details.error)
                        THEN xObj.message.details.error ELSE Str("unknown error")

C7_Witness ==
  /\ xDone /\ IsA2AToolResult(xObj)
  /\ xObj.message.toolName = "sessions_send"
  /\ xObj.message.details.status = Str("forbidden")
  /\ xObj.message.details.error = Str("boom")
  /\ Len(xOut) = 1 /\ xOut[1].event = "agent.error" /\ xOut[1].error = Str("boom")

\* C8: the j-th spawn/send tool-call block of an assistant message read from agent A, when it
\* is a spawn call, yields as j-th event a spawn request (agent.spawn) with ts = the record's
\* timestamp, fromAgent = A and toAgent = the agentId argument if present (a non-empty
\* string), else the label argument if present, else the literal "subagent".
C8_SpawnRequest ==
  xDone =>
    \A j \in DOMAIN CallsOf(xObj) :
      LET b == CallsOf(xObj)[j] IN
      b.name = "sessions_spawn" =>
        /\ j \in DOMAIN xOut
        /\ xOut[j].event = "agent.spawn"
        /\ xOut[j].ts = xObj.timestamp
        /\ xOut[j].fromAgent = xAgent
        /\ xOut[j].toAgent = IF Truthy(b.arguments.agentId) THEN b.arguments.agentId
                             ELSE IF Truthy(b.arguments.label) THEN b.arguments.label
                             ELSE Str("subagent")

\* the example of the specification: agent "main", timestamp 1000, agentId "ops", task "build report"
C8_Witness ==
  /\ xDone /\ xAgent = "main" /\ xObj.timestamp = 1000
  /\ Len(CallsOf(xObj)) = 1
  /\ CallsOf(xObj)[1].name = "sessions_spawn"
  /\ CallsOf(xObj)[1].arguments.agentId = Str("ops")
  /\ Len(xOut) = 1
  /\ xOut[1].event = "agent.spawn" /\ xOut[1].ts = 1000 /\ xOut[1].fromAgent = "main"
  /\ xOut[1].toAgent = Str("ops") /\ xOut[1].task = Str("build report")

\* C9: the j-th spawn/send tool-call block, when it is a send call, yields as j-th event a
\* send request (agent.send) with toAgent = the sessionKey argument if present (a non-empty
\* string), else the label argument if present, else the literal "?", and an excerpt that is
\* the message argument cut to at most 200 characters.
C9_SendRequest ==
  xDone =>
    \A j \in DOMAIN CallsOf(xObj) :
      LET b == CallsOf(xObj)[j] IN
      b.name = "sessions_send" =>
        /\ j \in DOMAIN xOut
        /\ xOut[j].event = "agent.send"
        /\ xOut[j].toAgent = IF Truthy(b.arguments.sessionKey) THEN b.arguments.sessionKey
                             ELSE IF Truthy(b.arguments.label) THEN b.arguments.label
                             ELSE Str("?")
        /\ xOut[j].message.t = "string"
        /\ Len(xOut[j].message.s) <= 200
        /\ xOut[j].message.s = SubSeq(TextOf(b.arguments.message), 1, Len(xOut[j].message.s))
        /\ (Len(TextOf(b.arguments.message)) <= 200
              => xOut[j].message.s = TextOf(b.arguments.message))

C9_Witness ==
  /\ xDone /\ Len(CallsOf(xObj)) = 1
  /\ CallsOf(xObj)[1].name = "sessions_send"
  /\ CallsOf(xObj)[1].arguments.sessionKey = Undefined
  /\ CallsOf(xObj)[1].arguments.label = Str("helper")
  /\ Len(xOut) = 1
  /\ xOut[1].event = "agent.send" /\ xOut[1].toAgent = Str("helper")
  /\ Len(TextOf(CallsOf(xObj)[1].arguments.message)) = 201
  /\ Len(xOut[1].message.s) = 200

\* the argument a request event takes its excerpt from, and the excerpt
ExcerptSource(b) == IF b.name = "sessions_spawn" THEN b.arguments.task ELSE b.arguments.message
ExcerptField(b, e) == IF b.name = "sessions_spawn" THEN e.task ELSE e.message

\* C10: the excerpt of every spawn request and send request is a string holding the first
\* min(L, 200) characters of the task / message argument of length L (500 characters give
\* exactly 200, at most 200 characters are kept whole, an absent argument gives "").
C10_ExcerptTruncation ==
  xDone =>
    \A j \in DOMAIN CallsOf(xObj) :
      LET b == CallsOf(xObj)[j]
          src == TextOf(ExcerptSource(b))
      IN  /\ j \in DOMAIN xOut
          /\ ExcerptField(b, xOut[j]).t = "string"
          /\ Len(ExcerptField(b, xOut[j]).s) = Min(Len(src), 200)
          /\ ExcerptField(b, xOut[j]).s = SubSeq(src, 1, Min(Len(src), 200))
          /\ (ExcerptSource(b) = Undefined => ExcerptField(b, xOut[j]).s = "")

C10_Witness ==
  /\ xDone /\ Len(CallsOf(xObj)) = 1
  /\ CallsOf(xObj)[1].name = "sessions_spawn"
  /\ Len(TextOf(CallsOf(xObj)[1].arguments.task)) = 500
  /\ Len(xOut) = 1
  /\ Len(xOut[1].task.s) = 200
  /\ xOut[1].task.s = SubSeq(TextOf(CallsOf(xObj)[1].arguments.task), 1, 200)

\* the value a result event carries for an identifier: the identifier when one was returned
\* (a non-empty string), null otherwise
Carried(v) == IF Truthy(v) THEN v ELSE Null

\* C11: a spawn or send tool result whose status is neither "error" nor "forbidden" (a missing
\* status included) yields exactly one event: agent.spawn_ok for the spawn tool, carrying the
\* returned run id and child session key, agent.send_ok for the send tool, carrying the
\* returned run id; an identifier that was not returned is carried as null.
C11_OkResult ==
  (xDone /\ IsA2AToolResult(xObj)
     /\ xObj.message.details.status \notin {Str("error"), Str("forbidden")})
  => /\ Len(xOut) = 1
     /\ xOut[1].ts = xObj.timestamp /\ xOut[1].fromAgent = xAgent
     /\ xOut[1].runId = Carried(xObj.message.details.runId)
     /\ IF xObj.message.toolName = "sessions_spawn"
        THEN /\ xOut[1].event = "agent.spawn_ok"
             /\ xOut[1].childSessionKey = Carried(xObj.message.details.childSessionKey)
        ELSE xOut[1].event = "agent.send_ok"

\* a spawn result with no status and a run id but no child session key
C11_Witness ==
  /\ xDone /\ IsA2AToolResult(xObj)
  /\ xObj.message.toolName = "sessions_spawn"
  /\ xObj.message.details.status = Undefined
  /\ xObj.message.details.runId = Str("run-1")
  /\ xObj.message.details.childSessionKey = Undefined
  /\ Len(xOut) = 1 /\ xOut[1].event = "agent.spawn_ok"
  /\ xOut[1].runId = Str("run-1") /\ xOut[1].childSessionKey = Null

(***************************************************************************)
(* Text: the string operations the tailers and the connection handler use. *)
(***************************************************************************)
CharAt(s, i) == SubSeq(s, i, i)

Whitespace == {" ", "\n", "\t", "\r"}

SetMin(S) == CHOOSE x \in S : \A y \in S : x <= y
SetMax(S) == CHOOSE x \in S : \A y \in S : x >= y

\* String.prototype.trim
Trim(s) ==
  LET keep == {i \in 1..Len(s) : CharAt(s, i) \notin Whitespace}
      last == CHOOSE i \in keep : \A j \in (i + 1)..Len(s) : CharAt(s, j) \in Whitespace
  IN  IF keep = {} THEN "" ELSE SubSeq(s, SetMin(keep), last)

RECURSIVE Split(_)
\* String.prototype.split('\n'): the pieces between the newlines, the empty ones included
Split(s) ==
  LET nl == {i \in 1..Len(s) : CharAt(s, i) = "\n"}
      first == SetMin(nl)
  IN  IF nl = {} THEN <<s>>
      ELSE <<SubSeq(s, 1, first - 1)>> \o Split(SubSeq(s, first + 1, Len(s)))

\* the predicate l => l.trim() of filter
NonBlank(l) == Trim(l) # ""

\* text.split('\n').filter(l => l.trim())
Lines(text) == SelectSeq(Split(text), NonBlank)

SliceFirst(seq, n) == SubSeq(seq, 1, Min(n, Len(seq)))

\* Array.prototype.slice(-n): the last n elements, all of them when there are fewer
SliceLast(seq, n) == SubSeq(seq, Max(1, Len(seq) - n + 1), Len(seq))

(***************************************************************************)
(* JSON lines.  A line of a watched file is the text {<kind><number>}: it  *)
(* parses only when it is whole, braces included, as a JSON object does.   *)
(*   {s7}  a session record: an assistant message with one sessions_spawn  *)
(*         tool call, timestamp 7                                          *)
(*   {e7}  a system event, id 7                                            *)
(***************************************************************************)
Digits == "0123456789"
IsDigit(c) == \E d \in 1..10 : CharAt(Digits, d) = c
DigitVal(c) == (CHOOSE d \in 1..10 : CharAt(Digits, d) = c) - 1

IsNumber(t) ==
  /\ Len(t) \in {1, 2}
  /\ \A i \in 1..Len(t) : IsDigit(CharAt(t, i))

NumberVal(t) ==
  IF Len(t) = 1 THEN DigitVal(t) ELSE 10 * DigitVal(CharAt(t, 1)) + DigitVal(CharAt(t, 2))

NumberText(n) ==
  IF n < 10 THEN CharAt(Digits, n + 1)
  ELSE CharAt(Digits, (n \div 10) + 1) \o CharAt(Digits, (n % 10) + 1)

LineKinds == {"s", "e"}

\* the text of a whole line, without its terminator
LineText(kind, n) == "{" \o kind \o NumberText(n) \o "}"

\* a line that is not valid JSON: an object cut before its closing brace
BadLineText(kind, n) == "{" \o kind \o NumberText(n)

\* JSON.parse(line) does not throw
JsonParses(line) ==
  LET t == Trim(line) IN
  /\ Len(t) >= 4
  /\ CharAt(t, 1) = "{" /\ CharAt(t, Len(t)) = "}"
  /\ CharAt(t, 2) \in LineKinds
  /\ IsNumber(SubSeq(t, 3, Len(t) - 1))

\* JSON.parse(line)
JsonParse(line) ==
  LET t == Trim(line) IN [kind |-> CharAt(t, 2), id |-> NumberVal(SubSeq(t, 3, Len(t) - 1))]

SpawnArgs == [NoArgs EXCEPT !.agentId = Str("ops"), !.task = Str("build report")]

\* the session record a parsed line {s<ts>} stands for
SpawnRecord(ts) ==
  [type |-> "message", timestamp |-> ts, hasMessage |-> TRUE,
   message |-> [NoMessage EXCEPT !.role = "assistant", !.isArray = TRUE,
                  !.content = <<[type |-> "toolCall", name |-> "sessions_spawn",
                                 arguments |-> SpawnArgs]>>]]

\* a session record of a failed sessions_send
SendErrorRecord(ts) ==
  [type |-> "message", timestamp |-> ts, hasMessage |-> TRUE,
   message |-> [NoMessage EXCEPT !.role = "toolResult", !.toolName = "sessions_send",
                  !.details = [NoDetails EXCEPT !.status = Str("error"), !.error = Str("boom")]]]

(***************************************************************************)
(* The hub: broadcastA2AEvent, POST /api/agent-comms, wss.on('connection') *)
(***************************************************************************)
ReplayCap == 200
BackfillComms == 30
BackfillEvents == 50

Subs == {"c1", "c2"}

\* JSON.stringify({type, data, backfill}) as sent to a client; backfill FALSE when the property is absent
Msg(type, data, backfill) == [type |-> type, data |-> data, backfill |-> backfill]

Marker == Msg("backfill_complete", Undefined, FALSE)

SendToAll(cl, msg) == [c \in DOMAIN cl |-> [cl[c] EXCEPT !.rx = Append(@, msg)]]

\* wss.clients.forEach(client => { if (client.readyState === WebSocket.OPEN) client.send(message) })
SendToOpen(cl, msg) ==
  [c \in DOMAIN cl |-> IF cl[c].state = "open"
                       THEN [cl[c] EXCEPT !.rx = Append(@, msg)] ELSE cl[c]]

\* server.js:1084-1092: the entry broadcastA2AEvent pushes
CommsEntry(event) ==
  [timestamp |-> event.ts,
   from |-> event.fromAgent,
   to |-> Or(event.toAgent, Null),
   message |-> Or(Or(Or(event.task, event.message), event.error), event.status),
   status |-> Or(event.status, Str("sent")),
   event |-> event.event,
   hasDetails |-> TRUE,
   details |-> event]

\* server.js:891-897: the entry POST /api/agent-comms pushes (it has no event and no details)
ManualEntry(now, body) ==
  [timestamp |-> now,
   from |-> body.from.s,
   to |-> body.to,
   message |-> body.message,
   status |-> Or(body.status, Str("sent")),
   event |-> "",
   hasDetails |-> FALSE,
   details |-> EventBase(0, "", "")]

CapCommsOff(comms) == comms

\* server.js:1094 and :902-904: if (comms.length > 200) comms = comms.slice(-200)
CapComms(comms) == IF Len(comms) > ReplayCap THEN SliceLast(comms, ReplayCap) ELSE comms

\* server.js:1078-1098 and :883-906: read the file ([] when that throws), push, cap, write
\* (the file is left as it was when the write throws)
StoreAppendKeepHistory(file, entry, readFails, writeFails) ==
  IF writeFails THEN file ELSE CapComms(Append(file, entry))

StoreAppend(file, entry, readFails, writeFails) ==
  LET comms == IF readFails THEN <<>> ELSE file
  IN  IF writeFails THEN file ELSE CapComms(Append(comms, entry))

\* server.js:1070-1099 broadcastA2AEvent on the hub state h = [clients, commsFile, written, published]
broadcastA2AEvent(h, event, readFails, writeFails) ==
  [clients |-> SendToOpen(h.clients, Msg("agent_comms", event, FALSE)),
   commsFile |-> StoreAppend(h.commsFile, CommsEntry(event), readFails, writeFails),
   written |-> IF writeFails THEN h.written ELSE Append(h.written, CommsEntry(event)),
   published |-> Append(h.published, event)]

RECURSIVE broadcastAll(_, _)
\* the calls of broadcastA2AEvent one processSessionLine makes, in order
broadcastAll(h, events) ==
  IF events = <<>> THEN h
  ELSE broadcastAll(broadcastA2AEvent(h, Head(events), FALSE, FALSE), Tail(events))

broadcastEventTagged(cl, event) == SendToOpen(cl, Msg("antfarm_event", event, TRUE))

\* server.js:1022-1029 broadcastEvent
broadcastEvent(cl, event) == SendToOpen(cl, Msg("antfarm_event", event, FALSE))

RECURSIVE ParsedSends(_)
\* server.js:1238-1242: recent.forEach(line => { try { ws.send(... JSON.parse(line) ...) } catch {} })
ParsedSends(lines) ==
  IF lines = <<>> THEN <<>>
  ELSE (IF JsonParses(Head(lines))
        THEN <<Msg("antfarm_event", JsonParse(Head(lines)), TRUE)>> ELSE <<>>)
       \o ParsedSends(Tail(lines))

NoEventsBackfill(content, readFails) == <<>>

\* server.js:1234-1243: the backfill of the system event file
EventsBackfill(content, readFails) ==
  IF readFails THEN <<>>
  ELSE ParsedSends(SliceLast(Lines(Trim(content)), BackfillEvents))

CommsBackfillOldest(file, readFails) ==
  IF readFails THEN <<>>
  ELSE LET recent == SliceFirst(file, BackfillComms)
       IN  [i \in 1..Len(recent) |->
              Msg("agent_comms", IF recent[i].hasDetails THEN recent[i].details ELSE recent[i], TRUE)]

\* server.js:1246-1255: the backfill of agent-comms.json
CommsBackfill(file, readFails) ==
  IF readFails THEN <<>>
  ELSE LET recent == SliceLast(file, BackfillComms)
       IN  [i \in 1..Len(recent) |->
              Msg("agent_comms", IF recent[i].hasDetails THEN recent[i].details ELSE recent[i], TRUE)]

HubState == [clients |-> clients, commsFile |-> commsFile, written |-> written,
             published |-> published]

(***************************************************************************)
(* SpecExtract: one call of processSessionLine on a bounded session record, *)
(* with one open and one closed subscriber and an empty agent-comms.json.  *)
(***************************************************************************)
InitExtract ==
  /\ xObj \in Records
  /\ xAgent \in Agents
  /\ xOut = <<>>
  /\ xDone = FALSE
  /\ commsFile = <<>> /\ eventsFile = "" /\ written = <<>> /\ published = <<>>
  /\ clients = [c \in Subs |-> [state |-> IF c = "c1" THEN "open" ELSE "closed", rx |-> <<>>]]
  /\ connAt = [c \in Subs |-> [p |-> 0, w |-> 0]]
  /\ nOps = 0
  /\ TailIdle /\ IdxIdle

\* one call processSessionLine(xObj, xAgent) (server.js:1187), its calls of broadcastA2AEvent included
Classify ==
  /\ ~xDone
  /\ xOut' = processSessionLine(xObj, xAgent)
  /\ xDone' = TRUE
  /\ LET h == broadcastAll(HubState, processSessionLine(xObj, xAgent))
     IN  /\ clients' = h.clients
         /\ commsFile' = h.commsFile
         /\ written' = h.written
         /\ published' = h.published
  /\ UNCHANGED <<xObj, xAgent, eventsFile, connAt, nOps>>
  /\ UNCHANGED tailvars /\ UNCHANGED idxvars

NextExtract == Classify

SpecExtract == InitExtract /\ [][NextExtract]_vars

MaxOps == 2

\* the event of the k-th publish: a spawn request or a send error with timestamp k
HubEvents(k) ==
  {processSessionLine(SpawnRecord(k), "main")[1], processSessionLine(SendErrorRecord(k), "ops")[1]}

\* one call of broadcastA2AEvent (server.js:1131, :1158)
Publish(event, readFails, writeFails) ==
  /\ nOps < MaxOps
  /\ LET h == broadcastA2AEvent(HubState, event, readFails, writeFails)
     IN  /\ clients' = h.clients
         /\ commsFile' = h.commsFile
         /\ written' = h.written
         /\ published' = h.published
  /\ nOps' = nOps + 1
  /\ UNCHANGED <<eventsFile, connAt>>
  /\ UNCHANGED xvars
  /\ UNCHANGED tailvars /\ UNCHANGED idxvars

PostBodies ==
  {[from |-> Str("main"), to |-> Str("ops"), message |-> m, status |-> st] :
     m \in {Undefined, Str("ping")}, st \in {Undefined, Str("queued")}}

\* server.js:875-912 POST /api/agent-comms
PostAgentComms(body, readFails, writeFails) ==
  /\ nOps < MaxOps
  /\ nOps' = nOps + 1
  /\ IF ~Truthy(body.from) \/ ~Truthy(body.to) \/ ~Truthy(body.message)
     THEN UNCHANGED <<commsFile, written>>
     ELSE /\ commsFile' = StoreAppend(commsFile, ManualEntry(nOps, body), readFails, writeFails)
          /\ written' = IF writeFails THEN written ELSE Append(written, ManualEntry(nOps, body))
  /\ UNCHANGED <<clients, published, eventsFile, connAt>>
  /\ UNCHANGED xvars
  /\ UNCHANGED tailvars /\ UNCHANGED idxvars

ConnectMarkerInTry(c, eventsReadFails, commsReadFails) ==
  /\ clients[c].state = "none"
  /\ clients' = [clients EXCEPT ![c] =
        [state |-> "open",
         rx |-> EventsBackfill(eventsFile, eventsReadFails)
                \o CommsBackfill(commsFile, commsReadFails)
                \o (IF eventsReadFails \/ commsReadFails THEN <<>> ELSE <<Marker>>)]]
  /\ connAt' = [connAt EXCEPT ![c] = [p |-> Len(published), w |-> Len(written)]]
  /\ UNCHANGED <<commsFile, eventsFile, written, published, nOps>>
  /\ UNCHANGED xvars
  /\ UNCHANGED tailvars /\ UNCHANGED idxvars

\* server.js:1232-1258 wss.on('connection'): the new client is in wss.clients and OPEN
Connect(c, eventsReadFails, commsReadFails) ==
  /\ clients[c].state = "none"
  /\ clients' = [clients EXCEPT ![c] =
        [state |-> "open",
         rx |-> EventsBackfill(eventsFile, eventsReadFails)
                \o CommsBackfill(commsFile, commsReadFails)
                \o <<Marker>>]]
  /\ connAt' = [connAt EXCEPT ![c] = [p |-> Len(published), w |-> Len(written)]]
  /\ UNCHANGED <<commsFile, eventsFile, written, published, nOps>>
  /\ UNCHANGED xvars
  /\ UNCHANGED tailvars /\ UNCHANGED idxvars

\* the client closes: it is no longer OPEN
Close(c) ==
  /\ clients[c].state = "open"
  /\ clients' = [clients EXCEPT ![c].state = "closed"]
  /\ UNCHANGED <<commsFile, eventsFile, written, published, connAt, nOps>>
  /\ UNCHANGED xvars
  /\ UNCHANGED tailvars /\ UNCHANGED idxvars

\* the lengths of agent-comms.json left behind by an earlier run of the server
InitFills == {0, 1, BackfillComms - 1, BackfillComms, BackfillComms + 1,
              ReplayCap - 1, ReplayCap}

InitHub ==
  /\ \E k \in InitFills :
       /\ published = [i \in 1..k |-> processSessionLine(SpawnRecord(i), "main")[1]]
       /\ written = [i \in 1..k |-> CommsEntry(processSessionLine(SpawnRecord(i), "main")[1])]
       /\ commsFile = [i \in 1..k |-> CommsEntry(processSessionLine(SpawnRecord(i), "main")[1])]
  /\ eventsFile \in {"", LineText("e", 1) \o "\n" \o LineText("e", 2) \o "\n"}
  /\ clients = [c \in Subs |-> [state |-> "none", rx |-> <<>>]]
  /\ connAt = [c \in Subs |-> [p |-> 0, w |-> 0]]
  /\ nOps = 0
  /\ xObj = SpawnRecord(0) /\ xAgent = "main" /\ xOut = <<>> /\ xDone = TRUE
  /\ TailIdle /\ IdxIdle

NextHub ==
  \/ \E ev \in HubEvents(Len(published) + 1) : Publish(ev, FALSE, FALSE)
  \/ \E body \in PostBodies : PostAgentComms(body, FALSE, FALSE)
  \/ \E c \in Subs : Connect(c, FALSE, FALSE)
  \/ \E c \in Subs : Close(c)

SpecHub == InitHub /\ [][NextHub]_vars

(***************************************************************************)
(* SpecFail: publishes and connections when reads and writes of            *)
(* agent-comms.json and reads of the system event file may fail, with a    *)
(* system event file longer than the backfill that holds a malformed line. *)
(***************************************************************************)
RECURSIVE EventLines(_, _)
\* the whole lines {e<from>} .. {e<to>} of the system event file
EventLines(from, to) ==
  IF from > to THEN "" ELSE LineText("e", from) \o "\n" \o EventLines(from + 1, to)

\* BackfillEvents + 2 lines, the third of them malformed
LongEvents == EventLines(1, 2) \o BadLineText("e", 3) \o "\n" \o EventLines(4, BackfillEvents + 2)

MaxFailOps == 1

\* the length of agent-comms.json left behind by an earlier run of the server
FailFill == BackfillComms + 1

InitFail ==
  /\ LET k == FailFill IN
       /\ published = [i \in 1..k |-> processSessionLine(SpawnRecord(i), "main")[1]]
       /\ written = [i \in 1..k |-> CommsEntry(processSessionLine(SpawnRecord(i), "main")[1])]
       /\ commsFile = [i \in 1..k |-> CommsEntry(processSessionLine(SpawnRecord(i), "main")[1])]
  /\ eventsFile = LongEvents
  /\ clients = [c \in Subs |-> [state |-> "none", rx |-> <<>>]]
  /\ connAt = [c \in Subs |-> [p |-> 0, w |-> 0]]
  /\ nOps = 0
  /\ xObj = SpawnRecord(0) /\ xAgent = "main" /\ xOut = <<>> /\ xDone = TRUE
  /\ TailIdle /\ IdxIdle

NextFail ==
  \/ \E ev \in HubEvents(Len(published) + 1), readFails, writeFails \in BOOLEAN :
       nOps < MaxFailOps /\ Publish(ev, readFails, writeFails)
  \/ \E c \in Subs, eventsReadFails, commsReadFails \in BOOLEAN :
       Connect(c, eventsReadFails, commsReadFails)

SpecFail == InitFail /\ [][NextFail]_vars

(***************************************************************************)
(* Claims about the effects of one processSessionLine call, checked under  *)
(* SpecExtract.                                                            *)
(***************************************************************************)
\* a record that is neither an assistant message holding a spawn/send tool-call block nor a
\* tool result of the spawn/send tool
Unrelated(obj) == CallsOf(obj) = <<>> /\ ~IsA2AToolResult(obj)

\* C12: processing a record that is neither an assistant message with a spawn/send tool-call
\* block nor a spawn/send tool result publishes no event and leaves the replay store and every
\* subscriber's stream as they were.
C12_NoEventNoChange ==
  [][ (Classify /\ Unrelated(xObj))
        => /\ xOut' = <<>> /\ published' = published
           /\ commsFile' = commsFile /\ written' = written
           /\ clients' = clients ]_vars

\* an assistant message whose only block is a call of another tool has been processed
C12_Witness ==
  /\ xDone /\ Unrelated(xObj)
  /\ xObj.type = "message" /\ xObj.hasMessage
  /\ xObj.message.role = "assistant" /\ xObj.message.isArray
  /\ Len(xObj.message.content) = 1
  /\ xObj.message.content[1].type = "toolCall" /\ xObj.message.content[1].name = "exec"
  /\ xOut = <<>> /\ published = <<>> /\ commsFile = <<>>
  /\ \A c \in Subs : clients[c].rx = <<>>

\* C13 as stated: a session record results in at most one published event.
C13_AtMostOne == xDone => Len(published) <= 1

\* C13 (amended): a session record results in one published event per spawn/send tool-call
\* block of an assistant message, in content order, in exactly one for a spawn/send tool
\* result, and in none otherwise.
C13_OnePerCall ==
  xDone =>
    /\ published = xOut
    /\ Len(published) = Len(CallsOf(xObj)) + (IF IsA2AToolResult(xObj) THEN 1 ELSE 0)
    /\ \A j \in DOMAIN CallsOf(xObj) :
         /\ published[j].action = CallsOf(xObj)[j].name
         /\ published[j].event = IF CallsOf(xObj)[j].name = "sessions_spawn"
                                 THEN "agent.spawn" ELSE "agent.send"

\* an assistant message holding a spawn call and then a send call has given two events
C13_Witness ==
  /\ xDone /\ Len(CallsOf(xObj)) = 2
  /\ CallsOf(xObj)[1].name = "sessions_spawn" /\ CallsOf(xObj)[2].name = "sessions_send"
  /\ Len(published) = 2
  /\ published[1].event = "agent.spawn" /\ published[2].event = "agent.send"
  /\ Len(clients["c1"].rx) = 2 /\ Len(commsFile) = 2

(***************************************************************************)
(* Claims about the hub, checked under SpecHub.                            *)
(***************************************************************************)
IsEventBackfill(m) == m.type = "antfarm_event" /\ m.backfill

\* only publishes wrote the first w entries of the store's history
OnlyPublishes(w) == \A i \in 1..w : written[i].hasDetails

\* what a subscriber that connected after N publishes has received, with b the number of
\* events its backfill holds: the system-event backfill, then the last b of the N events
\* tagged backfill in publish order, then one backfill_complete marker, then exactly the
\* events published after it connected, untagged, in publish order (all of them while its
\* channel is open).
StreamIs(c, b) ==
  LET rx == clients[c].rx
      N == connAt[c].p
      nEv == Len(SelectSeq(rx, IsEventBackfill))
      m == nEv + b + 1
  IN  /\ Len(rx) >= m
      /\ \A i \in 1..nEv : IsEventBackfill(rx[i])
      /\ \A i \in 1..b :
           /\ rx[nEv + i].type = "agent_comms" /\ rx[nEv + i].backfill
           /\ rx[nEv + i].data = published[N - b + i]
      /\ rx[m].type = "backfill_complete"
      /\ \A i \in (m + 1)..Len(rx) :
           /\ rx[i].type = "agent_comms" /\ ~rx[i].backfill
           /\ N + (i - m) <= Len(published)
           /\ rx[i].data = published[N + (i - m)]
      /\ (clients[c].state = "open" => Len(rx) - m = Len(published) - N)

MaxLines == 2
MaxTruncs == 1
MaxPartials == 1
\* the number of characters of a line its writer flushes first when it flushes it in two parts
CutAt == 2
MaxInFlight == 2
MaxBad == 1

TailAgent == "main"
TailSubs == Subs

FileText(f) == IF f = "session" THEN sessionFile ELSE eventsFile
KindOf(f) == IF f = "session" THEN "s" ELSE "e"

\* the file f becomes text.  The agent that writes a session file also updates the session's
\* updatedAt in its sessions.json; a change of the system event file makes fs.watchFile call
\* its listener.
WriteFile(f, text) ==
  /\ IF f = "session"
     THEN sessionFile' = text /\ updatedAtChanged' = TRUE /\ UNCHANGED <<eventsFile, watchDirty>>
     ELSE eventsFile' = text /\ watchDirty' = TRUE /\ UNCHANGED <<sessionFile, updatedAtChanged>>

\* the writer of f appends one whole line, terminator included
AppendLine(f) ==
  /\ nLines < MaxLines /\ pending[f] = ""
  /\ WriteFile(f, FileText(f) \o LineText(KindOf(f), nLines + 1) \o "\n")
  /\ appended' = [appended EXCEPT ![f] = Append(@, LineText(KindOf(f), nLines + 1))]
  /\ nLines' = nLines + 1
  /\ UNCHANGED <<pending, sessionFileOffset, lastEventSize, reads, handed, nTrunc, nPartial>>
  /\ UNCHANGED xvars /\ UNCHANGED hubvars /\ UNCHANGED <<baselined, baseLines>> /\ UNCHANGED idxvars

\* the malformed lines among lines
BadLines(lines) == SelectSeq(lines, LAMBDA l : ~JsonParses(l))

\* the writer of f appends one whole line that is not valid JSON
AppendBadLine(f) ==
  /\ nLines < MaxLines /\ pending[f] = ""
  /\ Len(BadLines(appended[f])) < MaxBad
  /\ WriteFile(f, FileText(f) \o BadLineText(KindOf(f), nLines + 1) \o "\n")
  /\ appended' = [appended EXCEPT ![f] = Append(@, BadLineText(KindOf(f), nLines + 1))]
  /\ nLines' = nLines + 1
  /\ UNCHANGED <<pending, sessionFileOffset, lastEventSize, reads, handed, nTrunc, nPartial>>
  /\ UNCHANGED xvars /\ UNCHANGED hubvars /\ UNCHANGED <<baselined, baseLines>> /\ UNCHANGED idxvars

\* the writer of f flushes the first cut characters of a line; the rest and the terminator follow later
AppendPartial(f, cut) ==
  /\ nLines < MaxLines /\ pending[f] = ""
  /\ LET text == LineText(KindOf(f), nLines + 1)
     IN  /\ cut \in 1..Len(text)
         /\ WriteFile(f, FileText(f) \o SubSeq(text, 1, cut))
         /\ pending' = [pending EXCEPT ![f] = SubSeq(text, cut + 1, Len(text)) \o "\n"]
  /\ nLines' = nLines + 1
  /\ nPartial < MaxPartials
  /\ nPartial' = nPartial + 1
  /\ UNCHANGED <<appended, sessionFileOffset, lastEventSize, reads, handed, nTrunc>>
  /\ UNCHANGED xvars /\ UNCHANGED hubvars /\ UNCHANGED <<baselined, baseLines>> /\ UNCHANGED idxvars

\* the writer of f flushes the rest of the line it began
CompleteLine(f) ==
  /\ pending[f] # ""
  /\ WriteFile(f, FileText(f) \o pending[f])
  /\ LET all == Lines(FileText(f) \o pending[f])
     IN  appended' = [appended EXCEPT ![f] = Append(@, all[Len(all)])]
  /\ pending' = [pending EXCEPT ![f] = ""]
  /\ UNCHANGED <<sessionFileOffset, lastEventSize, reads, handed, nLines, nTrunc, nPartial>>
  /\ UNCHANGED xvars /\ UNCHANGED hubvars /\ UNCHANGED <<baselined, baseLines>> /\ UNCHANGED idxvars

\* the file f is truncated (rotated): it is empty again
Truncate(f) ==
  /\ nTrunc < MaxTruncs /\ FileText(f) # ""
  /\ WriteFile(f, "")
  /\ pending' = [pending EXCEPT ![f] = ""]
  /\ nTrunc' = nTrunc + 1
  /\ UNCHANGED <<appended, sessionFileOffset, lastEventSize, reads, handed, nLines, nPartial>>
  /\ UNCHANGED xvars /\ UNCHANGED hubvars /\ UNCHANGED <<baselined, baseLines>> /\ UNCHANGED idxvars

\* server.js:1170 and :1039: the offset stored when the size is not above the stored offset
NoNewDataOffset(prev, size) == size

RemoveAt(seq, i) == SubSeq(seq, 1, i - 1) \o SubSeq(seq, i + 1, Len(seq))

\* what a read stream {start, end: size - 1} delivers of the file as it is when it is read
StreamData(text, r) == SubSeq(text, r.start + 1, Min(r.size, Len(text)))

StatFailOffsetZero(prev) == 0

\* server.js:1163-1166: statSync throws and tailSessionFile returns; the offset is as it was
StatFailOffset(prev) == prev

\* server.js:1221-1224 and :1162-1178: pollSessionStores finds the session's updatedAt changed,
\* stores it and calls tailSessionFile, which runs up to the creation of the read stream;
\* statFails: the file is missing or cannot be stat'ed at this moment
TailSessionBegin(statFails) ==
  /\ baselined
  /\ updatedAtChanged
  /\ updatedAtChanged' = FALSE
  /\ LET size == Len(sessionFile)
         prevOffset == sessionFileOffset
     IN  IF statFails
         THEN /\ sessionFileOffset' = StatFailOffset(sessionFileOffset)
              /\ UNCHANGED reads
         ELSE IF size <= prevOffset
         THEN /\ sessionFileOffset' = NoNewDataOffset(prevOffset, size)
              /\ UNCHANGED reads
         ELSE /\ Len(reads["session"]) < MaxInFlight
              /\ reads' = [reads EXCEPT !["session"] = Append(@, [start |-> prevOffset, size |-> size])]
              /\ UNCHANGED sessionFileOffset
  /\ UNCHANGED <<sessionFile, eventsFile, pending, lastEventSize, watchDirty, handed, appended,
                 nLines, nTrunc, nPartial>>
  /\ UNCHANGED xvars /\ UNCHANGED hubvars /\ UNCHANGED <<baselined, baseLines>> /\ UNCHANGED idxvars

\* the session record a parsed line stands for
SessionRecordOf(parsed) ==
  IF parsed.kind = "s" THEN SpawnRecord(parsed.id)
  ELSE [type |-> "custom", timestamp |-> parsed.id, hasMessage |-> FALSE, message |-> NoMessage]

RECURSIVE LineEvents(_, _)
\* server.js:1185-1189: lines.forEach(line => { try { processSessionLine(JSON.parse(line), agentId) } catch {} })
LineEvents(lines, agentId) ==
  IF lines = <<>> THEN <<>>
  ELSE (IF JsonParses(Head(lines))
        THEN processSessionLine(SessionRecordOf(JsonParse(Head(lines))), agentId) ELSE <<>>)
       \o LineEvents(Tail(lines), agentId)

\* server.js:1182-1190: the 'end' callback of the i-th read stream of the session file
TailSessionEnd(i) ==
  /\ i \in DOMAIN reads["session"]
  /\ LET r == reads["session"][i]
         lines == Lines(StreamData(sessionFile, r))
         h == broadcastAll(HubState, LineEvents(lines, TailAgent))
     IN  /\ sessionFileOffset' = r.size
         /\ handed' = [handed EXCEPT !["session"] = @ \o lines]
         /\ clients' = h.clients
         /\ commsFile' = h.commsFile
         /\ written' = h.written
         /\ published' = h.published
  /\ reads' = [reads EXCEPT !["session"] = RemoveAt(@, i)]
  /\ UNCHANGED <<sessionFile, eventsFile, pending, lastEventSize, watchDirty, updatedAtChanged,
                 appended, nLines, nTrunc, nPartial, connAt, nOps>>
  /\ UNCHANGED xvars /\ UNCHANGED <<baselined, baseLines>> /\ UNCHANGED idxvars

\* server.js:1037-1046: the listener of fs.watchFile up to the creation of the read stream
EventWatchFire ==
  /\ watchDirty
  /\ watchDirty' = FALSE
  /\ LET size == Len(eventsFile)
     IN  IF size <= lastEventSize
         THEN /\ lastEventSize' = NoNewDataOffset(lastEventSize, size)
              /\ UNCHANGED reads
         ELSE /\ Len(reads["events"]) < MaxInFlight
              /\ reads' = [reads EXCEPT !["events"] = Append(@, [start |-> lastEventSize, size |-> size])]
              /\ UNCHANGED lastEventSize
  /\ UNCHANGED <<sessionFile, eventsFile, pending, sessionFileOffset, updatedAtChanged, handed,
                 appended, nLines, nTrunc, nPartial>>
  /\ UNCHANGED xvars /\ UNCHANGED hubvars /\ UNCHANGED <<baselined, baseLines>> /\ UNCHANGED idxvars

RECURSIVE broadcastLines(_, _)
\* server.js:1052-1056: lines.forEach(line => { try { broadcastEvent(JSON.parse(line)) } catch {} })
broadcastLines(cl, lines) ==
  IF lines = <<>> THEN cl
  ELSE broadcastLines(IF JsonParses(Head(lines))
                      THEN broadcastEvent(cl, JsonParse(Head(lines))) ELSE cl,
                      Tail(lines))

\* server.js:1049-1057: the 'end' callback of the i-th read stream of the system event file
EventReadEnd(i) ==
  /\ i \in DOMAIN reads["events"]
  /\ LET r == reads["events"][i]
         lines == Lines(StreamData(eventsFile, r))
     IN  /\ lastEventSize' = r.size
         /\ handed' = [handed EXCEPT !["events"] = @ \o lines]
         /\ clients' = broadcastLines(clients, lines)
  /\ reads' = [reads EXCEPT !["events"] = RemoveAt(@, i)]
  /\ UNCHANGED <<sessionFile, eventsFile, pending, sessionFileOffset, watchDirty,
                 updatedAtChanged, appended, nLines, nTrunc, nPartial, commsFile, written,
                 published, connAt, nOps>>
  /\ UNCHANGED xvars /\ UNCHANGED <<baselined, baseLines>> /\ UNCHANGED idxvars

\* the lines the files hold when the server starts
OldLines(kind) == LineText(kind, 91) \o "\n" \o LineText(kind, 92) \o "\n"

\* server.js:1031-1035 startEventTail sets lastEventSize to the size of the system event file;
\* server.js:1203-1215 the first poll sets the offset of the session file to its size
InitTail ==
  /\ sessionFile = OldLines("s") /\ sessionFileOffset = Len(OldLines("s"))
  /\ eventsFile = OldLines("e") /\ lastEventSize = Len(OldLines("e"))
  /\ pending = [f \in Files |-> ""]
  /\ reads = [f \in Files |-> <<>>]
  /\ handed = [f \in Files |-> <<>>]
  /\ appended = [f \in Files |-> <<>>]
  /\ watchDirty = FALSE /\ updatedAtChanged = FALSE
  /\ nLines = 0 /\ nTrunc = 0 /\ nPartial = 0
  /\ baselined = TRUE /\ baseLines = Lines(OldLines("s"))
  /\ IdxIdle
  /\ commsFile = <<>> /\ written = <<>> /\ published = <<>>
  /\ clients = [c \in Subs |-> [state |-> "none", rx |-> <<>>]]
  /\ connAt = [c \in Subs |-> [p |-> 0, w |-> 0]]
  /\ nOps = 0
  /\ xObj = SpawnRecord(0) /\ xAgent = TailAgent /\ xOut = <<>> /\ xDone = TRUE

\* the file f has not been written since the server started
Untouched(f) == FileText(f) = OldLines(KindOf(f)) /\ pending[f] = ""

\* the writers of the other watched file have been idle so far
OthersIdle(f) == \A g \in Files \ {f} : Untouched(g)

\* the tailers against the writers of the files.  The two tailers share no variable, so a run
\* has the writers of one of the two files at work and explores every interleaving of them
\* with that file's tailer.
NextTail ==
  \/ \E f \in Files : OthersIdle(f) /\ AppendLine(f)
  \/ \E f \in Files : OthersIdle(f) /\ AppendBadLine(f)
  \/ \E f \in Files : OthersIdle(f) /\ AppendPartial(f, CutAt)
  \/ \E f \in Files : CompleteLine(f)
  \/ \E f \in Files : OthersIdle(f) /\ Truncate(f)
  \/ \E statFails \in BOOLEAN : TailSessionBegin(statFails)
  \/ \E i \in 1..MaxInFlight : TailSessionEnd(i)
  \/ EventWatchFire
  \/ \E i \in 1..MaxInFlight : EventReadEnd(i)

SpecTail == InitTail /\ [][NextTail]_vars

\* the tailers against the subscribers: whole lines are appended, clients connect at any time
NextLive ==
  \/ \E f \in Files : AppendLine(f)
  \/ TailSessionBegin(FALSE)
  \/ \E i \in 1..MaxInFlight : TailSessionEnd(i)
  \/ EventWatchFire
  \/ \E i \in 1..MaxInFlight : EventReadEnd(i)
  \/ \E c \in TailSubs : Connect(c, FALSE, FALSE)
  \/ \E c \in TailSubs : Close(c)

SpecLive == InitTail /\ [][NextLive]_vars

(***************************************************************************)
(* SpecPoll: the first poll of the agent's session index against the       *)
(* writer of the session file.  The server starts with no state for the    *)
(* agent; the writer may write before and after the first poll.            *)
(***************************************************************************)
BaselineOffsetZero(size) == 0

\* server.js:1211: sessionFileOffsets[val.sessionFile] = fs.statSync(val.sessionFile).size
BaselineOffset(size) == size

\* server.js:1196-1215: the first poll whose read and parse of sessions.json succeed
\* (lastSessionUpdates[agentId] is undefined): it records the session's updatedAt and sets the
\* offset of the session file to its size.  A missing file is the empty text: statSync
\* throws, no offset is stored, and an offset not stored reads as 0 (server.js:1168).
FirstPoll ==
  /\ ~baselined
  /\ baselined' = TRUE
  /\ updatedAtChanged' = FALSE
  /\ sessionFileOffset' = BaselineOffset(Len(sessionFile))
  /\ baseLines' = Lines(sessionFile)
  /\ UNCHANGED <<sessionFile, eventsFile, pending, lastEventSize, reads, watchDirty, handed,
                 appended, nLines, nTrunc, nPartial>>
  /\ UNCHANGED xvars /\ UNCHANGED hubvars /\ UNCHANGED idxvars

\* the session file when the server starts: missing (or empty), or holding two lines
InitPoll ==
  /\ sessionFile \in {"", OldLines("s")} /\ sessionFileOffset = 0
  /\ eventsFile = OldLines("e") /\ lastEventSize = Len(OldLines("e"))
  /\ pending = [f \in Files |-> ""]
  /\ reads = [f \in Files |-> <<>>]
  /\ handed = [f \in Files |-> <<>>]
  /\ appended = [f \in Files |-> <<>>]
  /\ watchDirty = FALSE /\ updatedAtChanged = FALSE
  /\ nLines = 0 /\ nTrunc = 0 /\ nPartial = 0
  /\ baselined = FALSE /\ baseLines = <<>>
  /\ IdxIdle
  /\ commsFile = <<>> /\ written = <<>> /\ published = <<>>
  /\ clients = [c \in Subs |-> [state |-> IF c = "c1" THEN "open" ELSE "closed", rx |-> <<>>]]
  /\ connAt = [c \in Subs |-> [p |-> 0, w |-> 0]]
  /\ nOps = 0
  /\ xObj = SpawnRecord(0) /\ xAgent = TailAgent /\ xOut = <<>> /\ xDone = TRUE

NextPoll ==
  \/ AppendLine("session")
  \/ AppendPartial("session", CutAt)
  \/ CompleteLine("session")
  \/ Truncate("session")
  \/ FirstPoll
  \/ TailSessionBegin(FALSE)
  \/ \E i \in 1..MaxInFlight : TailSessionEnd(i)

SpecPoll == InitPoll /\ [][NextPoll]_vars

(***************************************************************************)
(* SpecIndex: pollSessionStores over the configured agents.  Each tick     *)
(* starts one fs.readFile of sessions.json per agent; the callbacks run    *)
(* later, in any order, and call tailSessionFile for the changed sessions, *)
(* whose read streams end later still.  Every session has a session file.  *)
(***************************************************************************)
\* idx: the key is not in the index / the entry holds no updatedAt (a falsy value)
NotListed == -1
NoStamp == 0
\* lastSessionUpdates[agentId][key] and sessionFileOffsets[file]: the property is undefined
NotStored == -1

MaxTicks == 2
MaxIdxWrites == 2

\* the updatedAt of the sessions listed when the server starts
OldStamp == 90

ChangedAnyStamp(a, k) ==
  idx[a][k] # NotListed /\ idx[a][k] # lastSessionUpdates[a].at[k]

\* server.js:1217-1221: the key is an entry of the index and `currUpdate && currUpdate !== prevUpdate`
Changed(a, k) ==
  idx[a][k] # NotListed /\ idx[a][k] # NoStamp /\ idx[a][k] # lastSessionUpdates[a].at[k]

PrevOffsetAtEnd(a, k) ==
  IF sessionFileOffsets[a][k] = NotStored THEN Len(sessionFiles[a][k]) ELSE sessionFileOffsets[a][k]

\* server.js:1168: sessionFileOffsets[filePath] || 0
PrevOffset(a, k) == Max(sessionFileOffsets[a][k], 0)

\* server.js:1169: tailSessionFile finds the file larger than the stored offset and creates a stream
TailStarts(a, k) == Len(sessionFiles[a][k]) > PrevOffset(a, k)

\* server.js:1174-1178: the streams one callback creates, in the order of the index's entries
NewStreams(a) ==
  LET ks == SelectSeq(Keys, LAMBDA k : Changed(a, k) /\ TailStarts(a, k))
  IN  [j \in 1..Len(ks) |-> [agent |-> a, key |-> ks[j], start |-> PrevOffset(a, ks[j]),
                             size |-> Len(sessionFiles[a][ks[j]])]]

\* server.js:1193-1197, :1261-1267: one tick of setInterval: a readFile per configured agent
Tick ==
  /\ nTicks < MaxTicks
  /\ nTicks' = nTicks + 1
  /\ polls' = polls \o [i \in DOMAIN IdxAgents |-> [agent |-> IdxAgents[i], tick |-> nTicks + 1]]
  /\ UNCHANGED <<idx, lastSessionUpdates, sessionFileOffsets, sessionFiles, streams, tails,
                 nIdxWrites, eventsFile>>
  /\ UNCHANGED xvars /\ UNCHANGED hubvars /\ UNCHANGED tailvars

AfterFailureAbortTick(ps, i) == SelectSeq(ps, LAMBDA q : q.tick # ps[i].tick)

\* server.js:1198 and :1201: the callback returns on an error of the read or of JSON.parse;
\* the other reads in flight are as they were
AfterFailure(ps, i) == RemoveAt(ps, i)

IsUnseenAlways(a) == TRUE

\* server.js:1203: !lastSessionUpdates[agentId]
IsUnseen(a) == ~lastSessionUpdates[a].seen

\* server.js:1197-1229: the callback of the i-th readFile in flight; fails: the read gave an
\* error or the text is not JSON
PollCallback(i, fails) ==
  /\ i \in DOMAIN polls
  /\ polls' = IF fails THEN AfterFailure(polls, i) ELSE RemoveAt(polls, i)
  /\ LET a == polls[i].agent IN
     IF fails
     THEN UNCHANGED <<lastSessionUpdates, sessionFileOffsets, streams, tails>>
     ELSE IF IsUnseen(a)
     THEN /\ lastSessionUpdates' = [lastSessionUpdates EXCEPT ![a] =
               [seen |-> TRUE,
                at |-> [k \in KeySet |-> IF idx[a][k] = NotListed THEN NotStored ELSE idx[a][k]]]]
          /\ sessionFileOffsets' = [sessionFileOffsets EXCEPT ![a] =
               [k \in KeySet |-> IF idx[a][k] = NotListed THEN sessionFileOffsets[a][k]
                                 ELSE BaselineOffset(Len(sessionFiles[a][k]))]]
          /\ UNCHANGED <<streams, tails>>
     ELSE /\ lastSessionUpdates' = [lastSessionUpdates EXCEPT ![a].at =
               [k \in KeySet |-> IF Changed(a, k) THEN idx[a][k] ELSE lastSessionUpdates[a].at[k]]]
          /\ sessionFileOffsets' = [sessionFileOffsets EXCEPT ![a] =
               [k \in KeySet |-> IF Changed(a, k) /\ ~TailStarts(a, k)
                                 THEN NoNewDataOffset(PrevOffset(a, k), Len(sessionFiles[a][k]))
                                 ELSE sessionFileOffsets[a][k]]]
          /\ streams' = streams \o NewStreams(a)
          /\ tails' = [tails EXCEPT ![a] =
               [k \in KeySet |-> IF Changed(a, k) THEN tails[a][k] + 1 ELSE tails[a][k]]]
  /\ UNCHANGED <<idx, sessionFiles, nTicks, nIdxWrites, eventsFile>>
  /\ UNCHANGED xvars /\ UNCHANGED hubvars /\ UNCHANGED tailvars

\* server.js:1182-1190: the 'end' callback of the j-th read stream in flight
IdxStreamEnd(j) ==
  /\ j \in DOMAIN streams
  /\ LET r == streams[j]
         lines == Lines(StreamData(sessionFiles[r.agent][r.key], r))
         h == broadcastAll(HubState, LineEvents(lines, r.agent))
     IN  /\ sessionFileOffsets' = [sessionFileOffsets EXCEPT ![r.agent][r.key] = r.size]
         /\ clients' = h.clients
         /\ commsFile' = h.commsFile
         /\ written' = h.written
         /\ published' = h.published
  /\ streams' = RemoveAt(streams, j)
  /\ UNCHANGED <<idx, lastSessionUpdates, sessionFiles, polls, tails, nTicks, nIdxWrites,
                 eventsFile, connAt, nOps>>
  /\ UNCHANGED xvars /\ UNCHANGED tailvars

\* the agent a appends a line to the file of its session k and sets the session's updatedAt
\* in its index (a session not listed so far is listed from now on)
SessionWrite(a, k) ==
  /\ nIdxWrites < MaxIdxWrites
  /\ nIdxWrites' = nIdxWrites + 1
  /\ sessionFiles' = [sessionFiles EXCEPT ![a][k] = @ \o LineText("s", nIdxWrites + 1) \o "\n"]
  /\ idx' = [idx EXCEPT ![a][k] = nIdxWrites + 1]
  /\ UNCHANGED <<lastSessionUpdates, sessionFileOffsets, polls, streams, tails, nTicks, eventsFile>>
  /\ UNCHANGED xvars /\ UNCHANGED hubvars /\ UNCHANGED tailvars

\* the agent a appends a line to the file of its session k and leaves the entry of the
\* session without an updatedAt
SessionWriteNoStamp(a, k) ==
  /\ nIdxWrites < MaxIdxWrites
  /\ nIdxWrites' = nIdxWrites + 1
  /\ sessionFiles' = [sessionFiles EXCEPT ![a][k] = @ \o LineText("s", nIdxWrites + 1) \o "\n"]
  /\ idx' = [idx EXCEPT ![a][k] = NoStamp]
  /\ UNCHANGED <<lastSessionUpdates, sessionFileOffsets, polls, streams, tails, nTicks, eventsFile>>
  /\ UNCHANGED xvars /\ UNCHANGED hubvars /\ UNCHANGED tailvars

\* server.js:1066-1068: nothing is stored for any agent when the server starts; each agent
\* lists its session k1, and the file of a session k2 not listed yet holds lines already
InitIndex ==
  /\ idx = [a \in AgentSet |-> [k \in KeySet |-> IF k = "k1" THEN OldStamp ELSE NotListed]]
  /\ lastSessionUpdates = [a \in AgentSet |-> [seen |-> FALSE, at |-> [k \in KeySet |-> NotStored]]]
  /\ sessionFileOffsets = [a \in AgentSet |-> [k \in KeySet |-> NotStored]]
  /\ sessionFiles = [a \in AgentSet |-> [k \in KeySet |-> OldLines("s")]]
  /\ polls = <<>> /\ streams = <<>>
  /\ tails = [a \in AgentSet |-> [k \in KeySet |-> 0]]
  /\ nTicks = 0 /\ nIdxWrites = 0
  /\ commsFile = <<>> /\ written = <<>> /\ published = <<>>
  /\ eventsFile = ""
  /\ clients = [c \in Subs |-> [state |-> IF c = "c1" THEN "open" ELSE "closed", rx |-> <<>>]]
  /\ connAt = [c \in Subs |-> [p |-> 0, w |-> 0]]
  /\ nOps = 0
  /\ xObj = SpawnRecord(0) /\ xAgent = TailAgent /\ xOut = <<>> /\ xDone = TRUE
  /\ TailIdle

NextIndex ==
  \/ Tick
  \/ \E i \in 1..(MaxTicks * Len(IdxAgents)), fails \in BOOLEAN : PollCallback(i, fails)
  \/ \E j \in 1..(MaxTicks * Len(IdxAgents) * Len(Keys)) : IdxStreamEnd(j)
  \/ \E a \in AgentSet, k \in KeySet : SessionWrite(a, k)
  \/ \E a \in AgentSet, k \in KeySet : SessionWriteNoStamp(a, k)

SpecIndex == InitIndex /\ [][NextIndex]_vars

(***************************************************************************)
(* Claims about the tailers, checked under SpecTail and SpecLive.          *)
(***************************************************************************)
StoredOffset(f) == IF f = "session" THEN sessionFileOffset ELSE lastEventSize

\* no read of f is in flight or due, and the stored offset is the size of f
Quiescent(f) ==
  /\ reads[f] = <<>>
  /\ StoredOffset(f) = Len(FileText(f))
  /\ IF f = "session" THEN ~updatedAtChanged ELSE ~watchDirty

IsPrefix(a, b) == Len(a) <= Len(b) /\ a = SubSeq(b, 1, Len(a))

Range(seq) == {seq[i] : i \in DOMAIN seq}

\* the offset just after the last line terminator of text, 0 when it holds none
LastTerminator(text) ==
  LET nl == {i \in 1..Len(text) : CharAt(text, i) = "\n"}
  IN  IF nl = {} THEN 0 ELSE SetMax(nl)

\* C3: as long as only whole lines were appended and no file was truncated, the lines the
\* tails of a file have handed on are, in file order, the lines appended so far: none twice,
\* none skipped, and all of them once the tailer has caught up.
C3_TailExactlyOnce ==
  (nTrunc = 0 /\ nPartial = 0) =>
    \A f \in Files :
      /\ IsPrefix(handed[f], appended[f])
      /\ Quiescent(f) => handed[f] = appended[f]

\* C4: without truncation, a line is handed on only once it is terminated, the stored offset
\* never passes the last line terminator of the file, and once every begun line is terminated
\* and the tailer has caught up, each line has been handed on exactly once.
C4_PartialHeldBack ==
  nTrunc = 0 =>
    \A f \in Files :
      /\ \A i \in DOMAIN handed[f] : handed[f][i] \in Range(appended[f])
      /\ StoredOffset(f) <= LastTerminator(FileText(f))
      /\ (Quiescent(f) /\ pending[f] = "") => handed[f] = appended[f]

\* C5: a tail that finds the file smaller than the stored offset resets the stored offset
\* to 0 and, when the file holds anything, starts a read from the start of the file, so that
\* the lines written after the truncation are handed on.
C5_ResetToZero ==
  [][ /\ (TailSessionBegin(FALSE) /\ Len(sessionFile) < sessionFileOffset)
          => /\ sessionFileOffset' = 0
             /\ Len(sessionFile) > 0 =>
                  /\ Len(reads'["session"]) = Len(reads["session"]) + 1
                  /\ reads'["session"][Len(reads'["session"])].start = 0
      /\ (EventWatchFire /\ Len(eventsFile) < lastEventSize)
          => /\ lastEventSize' = 0
             /\ Len(eventsFile) > 0 =>
                  /\ Len(reads'["events"]) = Len(reads["events"]) + 1
                  /\ reads'["events"][Len(reads'["events"])].start = 0
    ]_vars

\* C16: a tail of a session file that is missing or cannot be stat'ed hands on no line,
\* publishes no event, starts no read and leaves the stored offset of the file as it was.
C16_MissingFile ==
  [][ TailSessionBegin(TRUE)
        => /\ sessionFileOffset' = sessionFileOffset
           /\ reads' = reads /\ handed' = handed
           /\ published' = published /\ clients' = clients /\ commsFile' = commsFile
    ]_vars

\* a line was appended to the session file and the tail that followed could not stat the
\* file: nothing was read or handed on and the offset is the one stored before
C16_Witness ==
  /\ nTrunc = 0 /\ nPartial = 0
  /\ appended["session"] # <<>> /\ handed["session"] = <<>>
  /\ reads["session"] = <<>> /\ ~updatedAtChanged
  /\ sessionFileOffset = Len(OldLines("s"))
  /\ Len(sessionFile) > sessionFileOffset
  /\ published = <<>>

\* C17: a tail of a changed session's file that fails (the file cannot be stat'ed) is due
\* again on the next tick, so that the lines are processed once the file is readable, also
\* when the session's updatedAt does not change again.
C17_RetryNextTick == [][ TailSessionBegin(TRUE) => updatedAtChanged' ]_vars

\* C18: with whole lines appended and no truncation, a line that is not valid JSON is handed
\* on once and never read again by a later tail, and it stops nothing: once the tailer has
\* caught up (the stored offset is past the line) every line appended before and after it has
\* been handed on, and every well-formed session line has published its event.
C18_SkipMalformed ==
  (nTrunc = 0 /\ nPartial = 0) =>
    /\ \A f \in Files :
         /\ \A i, j \in DOMAIN handed[f] :
              (i < j /\ ~JsonParses(handed[f][i])) => handed[f][i] # handed[f][j]
         /\ Quiescent(f) => Range(appended[f]) \subseteq Range(handed[f])
    /\ Quiescent("session") =>
         \A l \in Range(appended["session"]) :
           JsonParses(l) => \E i \in DOMAIN published : published[i].ts = JsonParse(l).id

StepLive ==
  LET nP == Len(published)
      ev == SelectSeq(SubSeq(handed'["events"], Len(handed["events"]) + 1, Len(handed'["events"])),
                      JsonParses)
  IN  [i \in 1..(Len(published') - nP) |-> Msg("agent_comms", published'[nP + i], FALSE)]
      \o [i \in 1..Len(ev) |-> Msg("antfarm_event", JsonParse(ev[i]), FALSE)]

IsLive(m) == m.type \in {"agent_comms", "antfarm_event"} /\ ~m.backfill

\* C14: every step sends the events it publishes, as live messages and in order, to each
\* subscriber whose channel is open, and sends nothing to a subscriber whose channel is not
\* open; a subscriber whose channel becomes open is sent no live message for what was
\* published before.
C14_OpenOnly ==
  [][ \A c \in Subs :
        /\ clients[c].state = "open" => clients'[c].rx = clients[c].rx \o StepLive
        /\ (clients[c].state # "open" /\ clients'[c].state # "open")
             => clients'[c].rx = clients[c].rx
        /\ (clients[c].state # "open" /\ clients'[c].state = "open")
             => \A i \in DOMAIN clients'[c].rx : ~IsLive(clients'[c].rx[i])
    ]_vars

\* an agent event and a system event were published while one subscriber was open and the
\* other was not: the first got both live, the other, connected since, got neither live
C14_Witness ==
  \E c, d \in Subs :
    /\ clients[c].state = "open" /\ clients[d].state = "open"
    /\ connAt[c].p = 0 /\ connAt[d].p = Len(published) /\ Len(published) > 0
    /\ \E i, j \in DOMAIN clients[c].rx :
         /\ IsLive(clients[c].rx[i]) /\ clients[c].rx[i].type = "agent_comms"
         /\ IsLive(clients[c].rx[j]) /\ clients[c].rx[j].type = "antfarm_event"
    /\ \A i \in DOMAIN clients[d].rx : ~IsLive(clients[d].rx[i])
    /\ \E i \in DOMAIN clients[d].rx :
         clients[d].rx[i].type = "agent_comms" /\ clients[d].rx[i].backfill

\* the system event lines handed on so far that parse
TailedEvents == SelectSeq(handed["events"], JsonParses)

\* C15 as stated: every system event line tailed goes through the publish of the agent
\* events, so each one has added an entry to the replay store.
C15_SamePublish == Len(written) >= Len(published) + Len(TailedEvents)

\* C15 (amended): the end of a read of the system event file sends each line that parses to
\* every open subscriber as a live antfarm_event and leaves the replay store as it was; a
\* subscriber that connects is sent, as antfarm_event backfill read from the event file,
\* every tailed line that is among the last 50 lines of the file.
C15_EventFileReplay ==
  [][ /\ (\E i \in 1..MaxInFlight : EventReadEnd(i))
          => /\ commsFile' = commsFile /\ written' = written /\ published' = published
             /\ \A c \in Subs : clients[c].state = "open" =>
                  clients'[c].rx = clients[c].rx \o StepLive
      /\ \A c \in Subs : (clients[c].state = "none" /\ clients'[c].state = "open") =>
           \A k \in DOMAIN TailedEvents :
             TailedEvents[k] \in Range(SliceLast(Lines(eventsFile), BackfillEvents))
               => \E i \in DOMAIN clients'[c].rx :
                    /\ clients'[c].rx[i].type = "antfarm_event" /\ clients'[c].rx[i].backfill
                    /\ clients'[c].rx[i].data = JsonParse(TailedEvents[k])
    ]_vars

\* a system event line was tailed while one subscriber was open; the store is empty, the
\* open subscriber got it live and a subscriber that connected later got it as backfill
C15_Witness ==
  \E c, d \in Subs :
    /\ TailedEvents # <<>> /\ commsFile = <<>> /\ written = <<>>
    /\ clients[c].state = "open" /\ clients[d].state = "open"
    /\ \E i \in DOMAIN clients[c].rx :
         /\ clients[c].rx[i].type = "antfarm_event" /\ ~clients[c].rx[i].backfill
         /\ clients[c].rx[i].data = JsonParse(TailedEvents[1])
    /\ \A i \in DOMAIN clients[d].rx : ~IsLive(clients[d].rx[i])
    /\ \E i \in DOMAIN clients[d].rx :
         /\ clients[d].rx[i].type = "antfarm_event" /\ clients[d].rx[i].backfill
         /\ clients[d].rx[i].data = JsonParse(TailedEvents[1])

\* the positions of the backfill_complete markers in a stream
MarkersIn(rx) == {i \in DOMAIN rx : rx[i].type = "backfill_complete"}

\* C19: every message pushed to a subscriber has type agent_comms, antfarm_event or
\* backfill_complete; the messages of the connect-time replay, those before the one
\* backfill_complete marker, carry backfill = true, the live messages, those after it, carry
\* no backfill flag, and the marker carries no data (and no flag).
C19_MessageShape ==
  \A c \in Subs :
    LET rx == clients[c].rx IN
    /\ \A i \in DOMAIN rx : rx[i].type \in {"agent_comms", "antfarm_event", "backfill_complete"}
    /\ clients[c].state = "none" => rx = <<>>
    /\ clients[c].state # "none" =>
         /\ Cardinality(MarkersIn(rx)) = 1
         /\ \A m \in MarkersIn(rx) :
              /\ rx[m] = Marker
              /\ rx[m].data = Undefined /\ ~rx[m].backfill
              /\ \A i \in 1..(m - 1) : rx[i].backfill
              /\ \A i \in (m + 1)..Len(rx) : ~rx[i].backfill

\* a subscriber got system events and an agent event as backfill, the marker, and then a
\* live message
C19_Witness ==
  \E c \in Subs :
    LET rx == clients[c].rx IN
    /\ \E i, j, m, k \in DOMAIN rx :
         /\ i < j /\ j < m /\ m < k
         /\ rx[i].type = "antfarm_event" /\ rx[i].backfill
         /\ rx[j].type = "agent_comms" /\ rx[j].backfill
         /\ rx[m].type = "backfill_complete"
         /\ rx[k].type = "antfarm_event" /\ ~rx[k].backfill

\* C6: no subscriber receives the same event twice (twice live, or as backfill and live), and
\* an open subscriber has received every event published since it connected.
C6_NoDuplicateNoGap ==
  \A c \in Subs :
    LET rx == clients[c].rx
        live == SelectSeq(rx, LAMBDA m : m.type = "agent_comms" /\ ~m.backfill)
    IN  /\ \A i, j \in DOMAIN rx :
             (i < j /\ rx[i].type = rx[j].type /\ rx[i].type # "backfill_complete")
               => rx[i].data # rx[j].data
        /\ clients[c].state = "open" =>
             /\ Len(live) = Len(published) - connAt[c].p
             /\ \A i \in DOMAIN live : live[i].data = published[connAt[c].p + i]

(***************************************************************************)
(* Claims about the poller, checked under SpecIndex.                       *)
(***************************************************************************)
\* a successful callback of a poll of agent a, already baselined, is the step taken
PollingStep(a) ==
  /\ lastSessionUpdates[a].seen
  /\ \E i \in DOMAIN polls : polls[i].agent = a /\ PollCallback(i, FALSE)

\* the updatedAt the index holds for the session differs from the stored value (an entry
\* without updatedAt does not differ from no stored value)
Differs(a, k) ==
  /\ idx[a][k] # lastSessionUpdates[a].at[k]
  /\ ~(idx[a][k] = NoStamp /\ lastSessionUpdates[a].at[k] = NotStored)

\* what C21 says of a tick, given when a session counts as changed
StoredAndTailedIff(a, k, changed) ==
  /\ (lastSessionUpdates'[a].at[k] # lastSessionUpdates[a].at[k]) <=> changed
  /\ (tails'[a][k] = tails[a][k] + 1) <=> changed
  /\ changed => lastSessionUpdates'[a].at[k] = idx[a][k]
  /\ ~changed => tails'[a][k] = tails[a][k]

\* C21 as stated: on a tick after the baseline, a listed session's stored updatedAt is
\* written and its file is tailed if and only if the updatedAt read differs from the stored one.
C21_IffDiffers ==
  [][ \A a \in AgentSet : PollingStep(a) =>
        \A k \in KeySet : idx[a][k] # NotListed => StoredAndTailedIff(a, k, Differs(a, k)) ]_vars

\* C21 (amended): ... if and only if the updatedAt read is truthy and differs from the stored
\* one; a session whose entry holds no updatedAt is neither tailed nor stored.
C21_IffTruthyAndDiffers ==
  [][ \A a \in AgentSet : PollingStep(a) =>
        \A k \in KeySet : idx[a][k] # NotListed =>
          StoredAndTailedIff(a, k, idx[a][k] # NoStamp /\ Differs(a, k)) ]_vars

\* after two ticks, one agent's session was written once, stored and tailed once, and the
\* other agent's session, unchanged, was never tailed
C21_Witness ==
  \E a, b \in AgentSet :
    /\ nTicks = 2 /\ polls = <<>>
    /\ lastSessionUpdates[a].seen /\ lastSessionUpdates[b].seen
    /\ idx[a]["k1"] \notin {OldStamp, NoStamp, NotListed}
    /\ lastSessionUpdates[a].at["k1"] = idx[a]["k1"] /\ tails[a]["k1"] = 1
    /\ idx[b]["k1"] = OldStamp /\ lastSessionUpdates[b].at["k1"] = OldStamp
    /\ tails[b]["k1"] = 0

\* C22: a read or parse failure of one agent's index leaves what is stored for that agent
\* (and everything else) as it was and ends only that agent's poll: the polls of the other
\* agents started by the same tick stay in flight; and every tick starts a poll of every
\* configured agent, the one that failed before included.
C22_FailureIsolated ==
  [][ /\ \A i \in DOMAIN polls : PollCallback(i, TRUE) =>
           /\ lastSessionUpdates' = lastSessionUpdates
           /\ sessionFileOffsets' = sessionFileOffsets
           /\ streams' = streams /\ tails' = tails /\ published' = published
           /\ polls' = RemoveAt(polls, i)
      /\ Tick => \A a \in AgentSet :
           \E j \in DOMAIN polls' : polls'[j].agent = a /\ polls'[j].tick = nTicks'
    ]_vars

\* the first tick's polls are over: the first agent's failed, the second agent's succeeded;
\* the second tick has started a poll of the first agent again
C22_Witness ==
  /\ nTicks = 2
  /\ ~lastSessionUpdates["main"].seen /\ lastSessionUpdates["ops"].seen
  /\ \A j \in DOMAIN polls : polls[j].tick = 2
  /\ \E j \in DOMAIN polls : polls[j].agent = "main"

\* C23: no two polls of the same agent and no two reads of the same session file are in
\* flight at the same time.
C23_NoOverlap ==
  /\ \A i, j \in DOMAIN polls : polls[i].agent = polls[j].agent => i = j
  /\ \A i, j \in DOMAIN streams :
       (streams[i].agent = streams[j].agent /\ streams[i].key = streams[j].key) => i = j

\* C26: an agent is unseen, with nothing stored, tailed or read for it, until a successful
\* callback of a poll of it; that callback stores the listed sessions' updatedAt and sets
\* their files' offsets to the files' sizes without tailing; the agent is never unseen again,
\* and every later successful callback tails its changed sessions instead of baselining.
C26_BaselineOnce ==
  /\ [](\A a \in AgentSet : ~lastSessionUpdates[a].seen =>
          /\ \A k \in KeySet : lastSessionUpdates[a].at[k] = NotStored /\ tails[a][k] = 0
          /\ \A j \in DOMAIN streams : streams[j].agent # a)
  /\ [][ \A a \in AgentSet :
           /\ lastSessionUpdates[a].seen => lastSessionUpdates'[a].seen
           /\ (~lastSessionUpdates[a].seen /\ lastSessionUpdates'[a].seen) =>
                /\ \E i \in DOMAIN polls : polls[i].agent = a /\ PollCallback(i, FALSE)
                /\ tails' = tails /\ streams' = streams
                /\ \A k \in KeySet : idx[a][k] # NotListed =>
                     /\ lastSessionUpdates'[a].at[k] = idx[a][k]
                     /\ sessionFileOffsets'[a][k] = Len(sessionFiles[a][k])
           /\ PollingStep(a) =>
                \A k \in KeySet :
                  (idx[a][k] # NotListed /\ idx[a][k] # NoStamp /\ Differs(a, k)) =>
                    /\ tails'[a][k] = tails[a][k] + 1
                    /\ Len(sessionFiles[a][k]) > PrevOffset(a, k) =>
                         /\ sessionFileOffsets'[a][k] = sessionFileOffsets[a][k]
                         /\ \E j \in DOMAIN streams' :
                              /\ j > Len(streams)
                              /\ streams'[j].agent = a /\ streams'[j].key = k
    ]_vars

\* an agent was baselined and, on a later tick, a session of it written since was tailed and
\* its line published
C26_Witness ==
  \E a \in AgentSet :
    /\ lastSessionUpdates[a].seen /\ tails[a]["k1"] = 1
    /\ sessionFileOffsets[a]["k1"] = Len(sessionFiles[a]["k1"])
    /\ Len(sessionFiles[a]["k1"]) > Len(OldLines("s"))
    /\ Len(published) = 1 /\ published[1].fromAgent = a /\ published[1].ts \in 1..MaxIdxWrites

\* C27: a session key with a truthy updatedAt that an agent's index lists only after the
\* agent was baselined is stored and tailed by the first successful callback that sees it,
\* and its file, which has no stored offset, is read from byte 0 to its size: the end of that
\* read publishes the event of every line the file held.
C27_NewSessionFromZero ==
  [][ /\ \A a \in AgentSet : PollingStep(a) =>
           \A k \in KeySet :
             (idx[a][k] # NotListed /\ idx[a][k] # NoStamp
                /\ lastSessionUpdates[a].at[k] = NotStored
                /\ sessionFileOffsets[a][k] = NotStored) =>
               /\ lastSessionUpdates'[a].at[k] = idx[a][k]
               /\ tails'[a][k] = tails[a][k] + 1
               /\ \E j \in DOMAIN streams' :
                    /\ j > Len(streams)
                    /\ streams'[j] = [agent |-> a, key |-> k, start |-> 0,
                                      size |-> Len(sessionFiles[a][k])]
      /\ \A j \in DOMAIN streams : (IdxStreamEnd(j) /\ streams[j].start = 0) =>
           /\ sessionFileOffsets'[streams[j].agent][streams[j].key] = streams[j].size
           /\ published' = published \o
                LineEvents(Lines(SubSeq(sessionFiles[streams[j].agent][streams[j].key],
                                        1, streams[j].size)), streams[j].agent)
    ]_vars

\* the two lines a session's file held before the session was listed have been published
C27_Witness ==
  \E a \in AgentSet :
    /\ lastSessionUpdates[a].seen
    /\ lastSessionUpdates[a].at["k2"] = idx[a]["k2"] /\ idx[a]["k2"] > NoStamp
    /\ tails[a]["k2"] = 1 /\ streams = <<>>
    /\ Len(published) = 3
    /\ published[1].ts = 91 /\ published[2].ts = 92 /\ published[3].ts = idx[a]["k2"]
    /\ \A i \in 1..3 : published[i].fromAgent = a

\* C24: a step never lowers the stored offset of a file unless it is a tail that observes
\* the file smaller than the stored offset, and then the offset becomes 0; and a tail that
\* observes the size of the file leaves the stored offset at most that size.
C24_OffsetMonotone ==
  [][ /\ sessionFileOffset' < sessionFileOffset =>
           /\ TailSessionBegin(FALSE) /\ Len(sessionFile) < sessionFileOffset
           /\ sessionFileOffset' = 0
      /\ lastEventSize' < lastEventSize =>
           /\ EventWatchFire /\ Len(eventsFile) < lastEventSize
           /\ lastEventSize' = 0
      /\ TailSessionBegin(FALSE) => sessionFileOffset' <= Len(sessionFile)
      /\ EventWatchFire => lastEventSize' <= Len(eventsFile)
    ]_vars

(***************************************************************************)
(* Claims about failing reads and writes, checked under SpecFail.          *)
(***************************************************************************)
\* the events a subscriber has received live
LiveEvents(c) ==
  LET live == SelectSeq(clients[c].rx, LAMBDA m : m.type = "agent_comms" /\ ~m.backfill)
  IN  {live[i].data : i \in DOMAIN live}

\* the events the persisted store holds
StoredEvents == {commsFile[i].details : i \in {j \in DOMAIN commsFile : commsFile[j].hasDetails}}

\* C25: every event a subscriber has received live is in the persisted replay store, unless
\* the store is at its capacity and may have evicted it; also when a read or a write of the
\* store failed.
C25_DeliveredIsStored ==
  \A c \in Subs : \A e \in LiveEvents(c) : e \in StoredEvents \/ Len(commsFile) = ReplayCap

\* the last n elements of seq
Suffix(seq, n) == SubSeq(seq, Len(seq) - n + 1, Len(seq))

\* the antfarm_event backfill messages of all the parseable lines of the system event file
ParseableBackfill ==
  LET ok == SelectSeq(Lines(eventsFile), JsonParses)
  IN  [i \in DOMAIN ok |-> Msg("antfarm_event", JsonParse(ok[i]), TRUE)]

\* the agent_comms backfill messages of all the entries of the replay store
StoreBackfill ==
  [i \in DOMAIN commsFile |->
     Msg("agent_comms", IF commsFile[i].hasDetails THEN commsFile[i].details ELSE commsFile[i], TRUE)]

\* C28: a new connection is sent, in this order, at most the last 50 parseable lines of the
\* system event file as antfarm_event backfill, then at most the last 30 entries of the
\* replay store as agent_comms backfill, then one backfill_complete marker, whether or not
\* the reads of the two sources fail; and no subscriber ever holds a second marker.
C28_BackfillOrder ==
  /\ [](\A c \in Subs :
          /\ clients[c].state = "none" => clients[c].rx = <<>>
          /\ clients[c].state # "none" =>
               /\ Len(SelectSeq(clients[c].rx, LAMBDA m : m = Marker)) = 1
               /\ \E i \in DOMAIN clients[c].rx :
                    /\ clients[c].rx[i] = Marker
                    /\ \A j \in 1..(i - 1) : clients[c].rx[j].backfill
                    /\ \A j \in (i + 1)..Len(clients[c].rx) : ~clients[c].rx[j].backfill)
  /\ [][ \A c \in Subs : (clients[c].state = "none" /\ clients'[c].state = "open") =>
           LET rx == clients'[c].rx
               ne == Len(SelectSeq(rx, IsEventBackfill))
               nc == Len(rx) - ne - 1
           IN  /\ ne \in 0..Min(BackfillEvents, Len(ParseableBackfill))
               /\ nc \in 0..Min(BackfillComms, Len(StoreBackfill))
               /\ rx = Suffix(ParseableBackfill, ne) \o Suffix(StoreBackfill, nc) \o <<Marker>>
    ]_vars

\* one subscriber was sent the backfill of both sources, cut to the 49 parseable lines among
\* the last 50 lines and to the last 30 of 31 entries; the other connected while both reads
\* failed and was sent the marker alone
C28_Witness ==
  /\ Len(SelectSeq(Lines(eventsFile), JsonParses)) > BackfillEvents
  /\ Len(commsFile) > BackfillComms
  /\ clients["c1"].state = "open" /\ clients["c2"].state = "open"
  /\ Len(clients["c1"].rx) = (BackfillEvents - 1) + BackfillComms + 1
  /\ clients["c1"].rx[BackfillEvents - 1].type = "antfarm_event"
  /\ clients["c1"].rx[BackfillEvents].type = "agent_comms"
  /\ clients["c1"].rx[BackfillEvents + BackfillComms] = Marker
  /\ clients["c2"].rx = <<Marker>>

\* the live message of event is appended to what each open subscriber has received, and
\* nothing is sent to the others
Delivered(event) ==
  \A c \in Subs :
    clients'[c].rx = IF clients[c].state = "open"
                     THEN Append(clients[c].rx, Msg("agent_comms", event, FALSE))
                     ELSE clients[c].rx

\* C29: a publish during which the store cannot be read or parsed still delivers the event
\* to the open subscribers and rewrites the store to hold that event's entry alone; a publish
\* during which the write fails delivers the event too and leaves the stored contents as
\* they were.
C29_FailuresSwallowed ==
  [][ \A ev \in HubEvents(Len(published) + 1) :
        /\ Publish(ev, TRUE, FALSE) => Delivered(ev) /\ commsFile' = <<CommsEntry(ev)>>
        /\ \A readFails \in BOOLEAN :
             Publish(ev, readFails, TRUE) => Delivered(ev) /\ commsFile' = commsFile
    ]_vars

\* an open subscriber received an event live whose entry is all the store holds, after a
\* history of more entries
C29_Witness ==
  /\ Len(written) > BackfillComms
  /\ Len(commsFile) = 1
  /\ \E c \in Subs :
       /\ clients[c].state = "open"
       /\ clients[c].rx[Len(clients[c].rx)] = Msg("agent_comms", commsFile[1].details, FALSE)

====
